---- MODULE Spec2Model ----
(***************************************************************************)
(* Model of main.py: a PyQt5 window (MainWindow) that starts and stops a   *)
(* TailWorker thread tailing a log file, and posts every chat line the     *)
(* worker finds to a Discord webhook.                                      *)
(*                                                                         *)
(* Text is modelled as sequences of one-character strings, so that strip,  *)
(* str.replace and the regular expression are computed character by        *)
(* character.  Two characters of the source are not ASCII and are written  *)
(* here with ASCII stand-ins: the zombie emoji of the default template is  *)
(* "#" and its em dash is "-".                                             *)
(***************************************************************************)
EXTENDS Integers, Sequences, FiniteSets, TLC

(***************************************************************************)
(* Bounds of the model.                                                    *)
(***************************************************************************)
\* how many TailWorker objects start_watching may construct
MaxUnits == 2
\* how many writes the game server appends to the log file
MaxWrites == 1
\* how many times the user edits a field of the form
MaxEdits == 1
\* how many times the user clicks the start/stop button
MaxClicks == 3
\* how many times a read of the log file fails
MaxErrors == 1
\* how many pieces the game server appends to the log of a single session
MaxPieces == 2

(***************************************************************************)
(* Text constants of the source.                                           *)
(***************************************************************************)
\* the literal pieces of CHAT_LINE_RE:  Chat \(from '   \): '   ':
ChatLit == <<"C", "h", "a", "t", " ", "(", "f", "r", "o", "m", " ", "'">>
CloseLit == <<")", ":", " ", "'">>
UserEndLit == <<"'", ":", " ">>

TokPlatform == <<"{", "p", "l", "a", "t", "f", "o", "r", "m", "}">>
TokUser == <<"{", "u", "s", "e", "r", "}">>
TokMessage == <<"{", "m", "e", "s", "s", "a", "g", "e", "}">>

DefaultTemplate == <<"#", " ", "{", "p", "l", "a", "t", "f", "o", "r", "m", "}", " ", "-", " ", "*", "*", "{", "u", "s", "e", "r", "}", "*", "*", ":", " ", "{", "m", "e", "s", "s", "a", "g", "e", "}">>

XboxPrefix == <<"X", "b", "o", "x", "_">>
PsnPrefix == <<"P", "S", "N", "_">>
SteamPrefix == <<"S", "t", "e", "a", "m", "_">>
XboxLabel == <<"X", "b", "o", "x">>
PsnLabel == <<"P", "S", "N">>
SteamLabel == <<"S", "t", "e", "a", "m">>

\* str.strip() with no argument strips these
Whitespace == {" ", "\n", "\t", "\r"}
\* m.group(3).strip(" '\"") strips these
MessageEdge == {" ", "'", "\""}

(***************************************************************************)
(* Inputs of the model.                                                    *)
(***************************************************************************)
\* what the game server appends to the log in one write
ChatWrite == <<"C", "h", "a", "t", " ", "(", "f", "r", "o", "m", " ", "'", "P", "S", "N", "_", "1", "'", ",", " ", "e", ")", ":", " ", "'", "Z", "'", ":", " ", "h", "i", "\n">>
JunkWrite == <<"t", "i", "c", "k", "\n">>
Writes == {ChatWrite, JunkWrite}
\* what the log file holds when the window opens: the server has been
\* running, and a chat line is in the log already
OldLog == ChatWrite

\* a chat line without the ", ..." qualifier after the platform id
PlainWrite == <<"C", "h", "a", "t", " ", "(", "f", "r", "o", "m", " ", "'", "P", "S", "N", "_", "1", "'", ")", ":", " ", "'", "Z", "'", ":", " ", "h", "i", "\n">>
\* the line of ChatWrite as the server's buffer may flush it: in two pieces
ChatHead == SubSeq(ChatWrite, 1, Len(ChatWrite) - 2)
ChatTail == SubSeq(ChatWrite, Len(ChatWrite) - 1, Len(ChatWrite))
Pieces == {ChatWrite, PlainWrite, ChatHead, ChatTail}

\* the path typed in the file field: empty, or the path of the log file
LogPath == <<"l", "o", "g">>
PathValues == {<<>>, LogPath}

\* the text typed in the webhook field
UrlPadded == <<" ", "v", " ">>
UrlBlank == <<" ">>
WebhookValues == {<<>>, UrlBlank, UrlPadded}

\* the text typed in the template field
UserTemplate == <<"{", "u", "s", "e", "r", "}", ":", " ", "{", "m", "e", "s", "s", "a", "g", "e", "}">>
TemplateValues == {<<>>, UserTemplate, DefaultTemplate}

(***************************************************************************)
(* String functions of Python, character by character.                     *)
(***************************************************************************)
SetMin(S) == CHOOSE x \in S : \A y \in S : x <= y

\* the first index at or after i, and the last at or before j, of a
\* character of s that is not in chars
RECURSIVE SkipLeft(_, _, _)
SkipLeft(s, chars, i) ==
    IF i > Len(s) THEN i
    ELSE IF s[i] \in chars THEN SkipLeft(s, chars, i + 1) ELSE i

RECURSIVE SkipRight(_, _, _)
SkipRight(s, chars, j) ==
    IF j < 1 THEN j
    ELSE IF s[j] \in chars THEN SkipRight(s, chars, j - 1) ELSE j

\* s.strip(chars)
StripChars(s, chars) ==
    SubSeq(s, SkipLeft(s, chars, 1), SkipRight(s, chars, Len(s)))

\* s.strip()
Strip(s) == StripChars(s, Whitespace)

\* s[i-1:].startswith(p), with i counted from 1
OccursAt(s, p, i) ==
    /\ i >= 1
    /\ i + Len(p) - 1 <= Len(s)
    /\ \A k \in 1..Len(p) : s[i + k - 1] = p[k]

\* s.startswith(p)
StartsWith(s, p) == OccursAt(s, p, 1)

\* s.replace(old, new) for a non-empty old: leftmost occurrences, not
\* overlapping, and the text put in is not scanned again
RECURSIVE ReplaceFrom(_, _, _, _)
ReplaceFrom(s, old, new, i) ==
    IF i > Len(s) THEN <<>>
    ELSE IF OccursAt(s, old, i)
         THEN new \o ReplaceFrom(s, old, new, i + Len(old))
         ELSE <<s[i]>> \o ReplaceFrom(s, old, new, i + 1)

Replace(s, old, new) == ReplaceFrom(s, old, new, 1)

(***************************************************************************)
(* CHAT_LINE_RE.search(line)                                               *)
(*   Chat \(from '([^']+)'(?:,.*?)\): '([^']+)': (.+)$                     *)
(***************************************************************************)
\* the index of the first quote of s at or after i, or 0
RECURSIVE NextQuote(_, _)
NextQuote(s, i) ==
    IF i > Len(s) THEN 0
    ELSE IF s[i] = "'" THEN i ELSE NextQuote(s, i + 1)

\* "." matches every character but a newline
DotRun(s, from, to) == \A j \in from..to : s[j] # "\n"

\* the match that starts at s0 (where "Chat (from '" is) and takes the
\* literal "): '" at c: the groups are fixed by these two positions
MatchAt(line, s0, c) ==
    LET g1 == s0 + Len(ChatLit)
        q1 == NextQuote(line, g1)
        g2 == c + Len(CloseLit)
        q2 == NextQuote(line, g2)
        g3 == q2 + Len(UserEndLit)
    IN  /\ OccursAt(line, ChatLit, s0)
        /\ q1 > g1
        /\ q1 + 1 <= Len(line)
        /\ line[q1 + 1] = ","
        /\ c >= q1 + 2
        /\ DotRun(line, q1 + 2, c - 1)
        /\ OccursAt(line, CloseLit, c)
        /\ q2 > g2
        /\ OccursAt(line, UserEndLit, q2)
        /\ g3 <= Len(line)
        /\ DotRun(line, g3, Len(line))

\* where the pattern's first literal is, and where its "): '" is
ChatStarts(line) == {s0 \in 1..Len(line) : OccursAt(line, ChatLit, s0)}
CloseStarts(line) == {c \in 1..Len(line) : OccursAt(line, CloseLit, c)}

MatchStarts(line) ==
    {s0 \in ChatStarts(line) : \E c \in CloseStarts(line) : MatchAt(line, s0, c)}

NoMatch == [ok |-> FALSE, platform_id |-> <<>>, user |-> <<>>, group3 |-> <<>>]

\* the groups of the match that starts at s0 and takes "): '" at c
Groups(line, s0, c) ==
    LET g1 == s0 + Len(ChatLit)
        g2 == c + Len(CloseLit)
    IN  [ok |-> TRUE,
         platform_id |-> SubSeq(line, g1, NextQuote(line, g1) - 1),
         user |-> SubSeq(line, g2, NextQuote(line, g2) - 1),
         group3 |-> SubSeq(line, NextQuote(line, g2) + Len(UserEndLit), Len(line))]

\* search takes the leftmost start; the lazy .*? takes the first "): '"
\* from which the rest of the pattern matches
FirstClose(line, s0) ==
    SetMin({c \in CloseStarts(line) : MatchAt(line, s0, c)})

ChatSearch(line) ==
    IF MatchStarts(line) = {} THEN NoMatch
    ELSE Groups(line, SetMin(MatchStarts(line)),
                FirstClose(line, SetMin(MatchStarts(line))))

(***************************************************************************)
(* MainWindow.on_new_chat, the pure part: label, template, content         *)
(***************************************************************************)
PlatformLabel(platform_id) ==
    IF StartsWith(platform_id, XboxPrefix) THEN XboxLabel
    ELSE IF StartsWith(platform_id, PsnPrefix) THEN PsnLabel
    ELSE IF StartsWith(platform_id, SteamPrefix) THEN SteamLabel
    ELSE platform_id

\* template_edit.toPlainText() or DEFAULT_CONFIG[...]['message_template']
EffectiveTemplate(text) == IF text = <<>> THEN DefaultTemplate ELSE text

\* the chained replace of lines 221-225
Render(template, label, user, message) ==
    Replace(Replace(Replace(template, TokPlatform, label), TokUser, user),
            TokMessage, message)

(***************************************************************************)
(* MainWindow.post_webhook.  What the network does with the request is the *)
(* parameter resp: a response with a status and a body, or an exception    *)
(* raised by requests.post.  The result is what the caller gets: the pair  *)
(* (success, resp_text), or an exception that leaves the method.           *)
(***************************************************************************)
HttpResponse(status, text) == [kind |-> "response", status |-> status, text |-> text]
HttpException(err) == [kind |-> "exception", status |-> 0, text |-> err]

\* a faulty variant of post_webhook: every 2xx status counts as delivered
post_webhook_any2xx(webhook_url, content, resp) ==
    IF resp.kind = "response"
    THEN IF resp.status \in 200..299
         THEN [raised |-> FALSE, success |-> TRUE, resp_text |-> <<>>]
         ELSE [raised |-> FALSE, success |-> FALSE,
               resp_text |-> <<"HTTP", resp.status, resp.text>>]
    ELSE [raised |-> FALSE, success |-> FALSE, resp_text |-> resp.text]

post_webhook(webhook_url, content, resp) ==
    IF resp.kind = "response"
    THEN IF resp.status \in {200, 204}
         THEN [raised |-> FALSE, success |-> TRUE, resp_text |-> <<>>]
         ELSE [raised |-> FALSE, success |-> FALSE,
               resp_text |-> <<"HTTP", resp.status, resp.text>>]
    ELSE [raised |-> FALSE, success |-> FALSE, resp_text |-> resp.text]

\* what the webhook answers in the tailing model
Responses ==
    {HttpResponse(204, <<>>), HttpException(<<"t", "i", "m", "e", "d">>)}

(***************************************************************************)
(* State.                                                                  *)
(***************************************************************************)
VARIABLES
    \* MainWindow
    tail_worker,    \* self.tail_worker: 0 is None, else the TailWorker's number
    start_btn,      \* the text of self.start_btn
    file_edit,      \* the text of self.file_edit
    webhook_edit,   \* the text of self.webhook_edit
    template_edit,  \* the text of self.template_edit
    app_log,        \* the lines of self.app_log, without their time stamps
    fg_pc,          \* where the GUI thread is: "loop" (in the event loop) or
                    \* "wait" (inside TailWorker.stop, in self.wait(2000))
    \* TailWorker objects, by number
    workers,        \* per worker: position of its thread, its fields, its file
    nWorkers,       \* how many TailWorker objects have been constructed
    \* Qt
    events,         \* the signals queued for the GUI thread, oldest first
    \* the file system and the game server
    file_exists,    \* os.path.exists(LogPath)
    file,           \* the characters of the log file
    nWrites,        \* how many writes the server has made
    nErrors,        \* how many reads of the file have failed
    nEdits,         \* how many edits the user has made
    nClicks,        \* how many clicks on the start/stop button the user has made
    \* history
    nReads,         \* how many lines the workers have read so far
    handled,        \* one record per run of on_new_chat, oldest first
    \* one call of post_webhook on its own (specification PostSpec), or one
    \* rendering on its own (specification RenderSpec)
    call

vars == <<tail_worker, start_btn, file_edit, webhook_edit, template_edit,
          app_log, fg_pc, workers, nWorkers, events, file_exists, file,
          nWrites, nErrors, nEdits, nClicks, nReads, handled, call>>

guiVars == <<tail_worker, start_btn, app_log, fg_pc, handled>>
formVars == <<file_edit, webhook_edit, template_edit, nEdits, nClicks>>
fsVars == <<file_exists, file, nWrites, nErrors>>

StartText == "Iniciar vigilancia"
StopText == "Detener vigilancia"

Units == 1..MaxUnits

\* a TailWorker that has not been constructed
NoWorker ==
    [pc |-> "none", running |-> FALSE, filepath |-> <<>>, pos |-> 0,
     line |-> <<>>, off |-> 0, stamp |-> 0, eof0 |-> 0, stop_asked |-> FALSE,
     webhook0 |-> <<>>, template0 |-> <<>>]

NoCall == [pc |-> "none"]

\* a diagnostic: the fixed text of the message and the value formatted into it
Diag(msg, arg) == [msg |-> msg, arg |-> arg]

\* a queued signal: log(str) or new_chat(str, str, str) of worker src
LogEvent(src, msg, arg) ==
    [sig |-> "log", src |-> src, diag |-> Diag(msg, arg),
     platform_id |-> <<>>, user |-> <<>>, message |-> <<>>, off |-> 0, stamp |-> 0]
\* the log signal of line 71, with where in the file its line was read
LineEvent(src, line, off, stamp) ==
    [sig |-> "log", src |-> src, diag |-> Diag("Linea detectada", line),
     platform_id |-> <<>>, user |-> <<>>, message |-> <<>>,
     off |-> off, stamp |-> stamp]
ChatEvent(src, platform_id, user, message, off, stamp) ==
    [sig |-> "new_chat", src |-> src, diag |-> Diag("", <<>>),
     platform_id |-> platform_id, user |-> user, message |-> message,
     off |-> off, stamp |-> stamp]

\* lines 100-106: no worker, and DEFAULT_CONFIG loaded into the form by
\* load_settings_to_ui
WindowInit ==
    /\ tail_worker = 0
    /\ start_btn = StartText
    /\ file_edit = LogPath
    /\ webhook_edit = <<>>
    /\ template_edit = DefaultTemplate
    /\ app_log = <<>>
    /\ fg_pc = "loop"
    /\ workers = [u \in Units |-> NoWorker]
    /\ nWorkers = 0
    /\ events = <<>>
    /\ file_exists = TRUE
    /\ file = OldLog
    /\ nWrites = 0
    /\ nErrors = 0
    /\ nEdits = 0
    /\ nClicks = 0
    /\ nReads = 0
    /\ handled = <<>>

Init == WindowInit /\ call = NoCall

\* os.path.exists(path)
PathExists(path) == path = LogPath /\ file_exists

\* QThread.isRunning(): from start() until run() has returned
isRunning(u) == workers[u].pc \notin {"none", "finished"}

(***************************************************************************)
(* TailWorker.run, one step of the thread at a time.                       *)
(***************************************************************************)
\* f.readline() at position pos: up to and with the next newline, or to the
\* end of the file
RECURSIVE LineEnd(_, _)
LineEnd(f, j) ==
    IF j >= Len(f) THEN Len(f)
    ELSE IF f[j] = "\n" THEN j ELSE LineEnd(f, j + 1)

ReadLineAt(f, pos) == SubSeq(f, pos + 1, LineEnd(f, pos + 1))

\* a faulty variant of SeekEnd: the file is read from its start
SeekEnd_start(f) == 0

\* f.seek(0, os.SEEK_END)
SeekEnd(f) == Len(f)

\* lines 55-59, and 81-82 when the file is not there
RunEnter(u) ==
    /\ workers[u].pc = "started"
    /\ IF PathExists(workers[u].filepath)
       THEN /\ workers' = [workers EXCEPT ![u].running = TRUE,
                                          ![u].pos = SeekEnd(file),
                                          ![u].eof0 = Len(file),
                                          ![u].pc = "while"]
            /\ events' = Append(events,
                   LogEvent(u, "Iniciando vigilancia de", workers[u].filepath))
       ELSE /\ workers' = [workers EXCEPT ![u].running = TRUE,
                                          ![u].pc = "finished"]
            /\ events' = events \o
                   << LogEvent(u, "Iniciando vigilancia de", workers[u].filepath),
                      LogEvent(u, "El archivo no fue encontrado", workers[u].filepath) >>
    /\ UNCHANGED <<guiVars, formVars, fsVars, nWorkers, nReads, call>>

\* lines 61-69: the loop test, and one readline when the flag is set; with
\* nothing to read the thread sleeps poll_interval seconds and is back at
\* line 61
LoopRead(u) ==
    /\ workers[u].pc = "while"
    /\ IF ~workers[u].running
       THEN /\ workers' = [workers EXCEPT ![u].pc = "finished"]
            /\ UNCHANGED nReads
       ELSE LET raw == ReadLineAt(file, workers[u].pos)
                line == Strip(raw)
            IN  /\ workers' = [workers EXCEPT
                      ![u].pos = @ + Len(raw),
                      ![u].line = line,
                      ![u].off = IF line = <<>> THEN 0 ELSE workers[u].pos,
                      ![u].stamp = IF line = <<>> THEN 0 ELSE nReads + 1,
                      ![u].pc = IF line = <<>> THEN "while" ELSE "emit"]
                /\ nReads' = IF line = <<>> THEN nReads ELSE nReads + 1
    /\ UNCHANGED <<guiVars, formVars, fsVars, nWorkers, events, call>>

\* a faulty variant of ReadError: the error is reported from inside the
\* loop, and the loop goes on
ReadError_resuming(u) ==
    /\ nErrors < MaxErrors
    /\ workers[u].pc = "while"
    /\ workers[u].running
    /\ nErrors' = nErrors + 1
    /\ workers' = [workers EXCEPT ![u].pc = "while"]
    /\ events' = Append(events, LogEvent(u, "Error en TailWorker", <<"e", "i", "o">>))
    /\ UNCHANGED <<guiVars, formVars, file_exists, file, nWrites, nWorkers,
                   nReads, call>>

\* lines 83-84: readline raises (an OSError of the disk, say)
ReadError(u) ==
    /\ nErrors < MaxErrors
    /\ workers[u].pc = "while"
    /\ workers[u].running
    /\ nErrors' = nErrors + 1
    /\ workers' = [workers EXCEPT ![u].pc = "finished"]
    /\ events' = Append(events, LogEvent(u, "Error en TailWorker", <<"e", "i", "o">>))
    /\ UNCHANGED <<guiVars, formVars, file_exists, file, nWrites, nWorkers,
                   nReads, call>>

\* a faulty variant of EmitMatch: line 74 does not test m
EmitMatch_untested(u, m) ==
    << LogEvent(u, "Chat parseado",
                <<m.platform_id, m.user, StripChars(m.group3, MessageEdge)>>),
       ChatEvent(u, m.platform_id, m.user, StripChars(m.group3, MessageEdge),
                 workers[u].off, workers[u].stamp) >>

\* lines 74-79: what is emitted for the result m of the search
EmitMatch(u, m) ==
    IF m.ok
    THEN << LogEvent(u, "Chat parseado",
                     <<m.platform_id, m.user, StripChars(m.group3, MessageEdge)>>),
            ChatEvent(u, m.platform_id, m.user, StripChars(m.group3, MessageEdge),
                      workers[u].off, workers[u].stamp) >>
    ELSE << >>

\* lines 71-79
Emit(u) ==
    /\ workers[u].pc = "emit"
    /\ events' = events
                    \o << LineEvent(u, workers[u].line, workers[u].off,
                                    workers[u].stamp) >>
                    \o EmitMatch(u, ChatSearch(workers[u].line))
    /\ workers' = [workers EXCEPT ![u].pc = "while", ![u].line = <<>>,
                                     ![u].off = 0, ![u].stamp = 0]
    /\ UNCHANGED <<guiVars, formVars, fsVars, nWorkers, nReads, call>>

WorkerStep(u) ==
    \/ RunEnter(u)
    \/ LoopRead(u)
    \/ ReadError(u)
    \/ Emit(u)

(***************************************************************************)
(* MainWindow: the handlers the GUI thread runs from its event loop.       *)
(***************************************************************************)
\* the thread every slot of MainWindow runs on: the connections of lines
\* 198-199 are made to methods of a QObject that lives in the GUI thread,
\* so a signal emitted in the worker's thread is queued and run there
SlotThread == "gui"

\* a faulty variant of start_watching: line 193 without os.path.exists
start_watching_unchecked ==
    LET filepath == file_edit
    IN  IF filepath = <<>>
        THEN /\ app_log' = Append(app_log,
                      Diag("Ruta de archivo invalida o no existe.", <<>>))
             /\ UNCHANGED <<tail_worker, start_btn, workers, nWorkers, fg_pc>>
        ELSE /\ nWorkers < MaxUnits
             /\ nWorkers' = nWorkers + 1
             /\ workers' = [workers EXCEPT ![nWorkers + 1] =
                    [NoWorker EXCEPT !.pc = "started",
                                     !.filepath = filepath,
                                     !.webhook0 = webhook_edit,
                                     !.template0 = template_edit]]
             /\ tail_worker' = nWorkers + 1
             /\ start_btn' = StopText
             /\ app_log' = Append(app_log, Diag("Vigilancia iniciada.", <<>>))
             /\ UNCHANGED fg_pc

\* lines 191-202
start_watching ==
    LET filepath == file_edit
    IN  IF filepath = <<>> \/ ~PathExists(filepath)
        THEN /\ app_log' = Append(app_log,
                      Diag("Ruta de archivo invalida o no existe.", <<>>))
             /\ UNCHANGED <<tail_worker, start_btn, workers, nWorkers, fg_pc>>
        ELSE /\ nWorkers < MaxUnits
             /\ nWorkers' = nWorkers + 1
             /\ workers' = [workers EXCEPT ![nWorkers + 1] =
                    [NoWorker EXCEPT !.pc = "started",
                                     !.filepath = filepath,
                                     !.webhook0 = webhook_edit,
                                     !.template0 = template_edit]]
             /\ tail_worker' = nWorkers + 1
             /\ start_btn' = StopText
             /\ app_log' = Append(app_log, Diag("Vigilancia iniciada.", <<>>))
             /\ UNCHANGED fg_pc

\* lines 204-206 and 87: stop_watching up to the wait of TailWorker.stop
stop_watching ==
    IF tail_worker # 0
    THEN /\ workers' = [workers EXCEPT ![tail_worker].running = FALSE,
                                       ![tail_worker].stop_asked = TRUE]
         /\ fg_pc' = "wait"
         /\ UNCHANGED <<tail_worker, start_btn, app_log, nWorkers>>
    ELSE UNCHANGED <<tail_worker, start_btn, app_log, nWorkers, workers, fg_pc>>

\* lines 185-189
toggle_watch ==
    /\ fg_pc = "loop"
    /\ nClicks < MaxClicks
    /\ nClicks' = nClicks + 1
    /\ IF tail_worker # 0 /\ isRunning(tail_worker)
       THEN stop_watching
       ELSE start_watching
    /\ UNCHANGED <<file_edit, webhook_edit, template_edit, nEdits, fsVars,
                   events, nReads, handled, call>>

\* a faulty variant of wait_returns: wait() without a timeout, which returns
\* only when the thread has finished
wait_returns_unbounded ==
    /\ fg_pc = "wait"
    /\ ~isRunning(tail_worker)
    /\ tail_worker' = 0
    /\ start_btn' = StartText
    /\ app_log' = Append(app_log, Diag("Vigilancia detenida.", <<>>))
    /\ fg_pc' = "loop"
    /\ UNCHANGED <<formVars, fsVars, workers, nWorkers, events, nReads,
                   handled, call>>

\* lines 88 and 207-209: self.wait(2000) returns, because the thread has
\* finished or because 2000 ms have passed, and stop_watching goes on
wait_returns ==
    /\ fg_pc = "wait"
    /\ tail_worker' = 0
    /\ start_btn' = StartText
    /\ app_log' = Append(app_log, Diag("Vigilancia detenida.", <<>>))
    /\ fg_pc' = "loop"
    /\ UNCHANGED <<formVars, fsVars, workers, nWorkers, events, nReads,
                   handled, call>>

\* lines 181-183, as the slot of the signal log
append_log ==
    /\ fg_pc = "loop"
    /\ events # <<>>
    /\ Head(events).sig = "log"
    /\ app_log' = Append(app_log, Head(events).diag)
    /\ events' = Tail(events)
    /\ UNCHANGED <<tail_worker, start_btn, fg_pc, handled, formVars, fsVars,
                   workers, nWorkers, nReads, call>>

NoResponse == [kind |-> "none", status |-> 0, text |-> <<>>]
NoReturn == [raised |-> FALSE, success |-> FALSE, resp_text |-> <<>>]

\* a faulty variant of webhook_text: the text the field had when the
\* session was started
webhook_text_at_start ==
    IF tail_worker # 0 THEN workers[tail_worker].webhook0 ELSE webhook_edit

\* self.webhook_edit.text() and self.template_edit.toPlainText(), lines 229
\* and 220: the form is read when the slot runs
webhook_text == webhook_edit
template_text == template_edit

\* a faulty variant of DispatchUrl: line 229 without .strip()
DispatchUrl_unstripped(text) == text

\* line 229: .strip()
DispatchUrl(text) == Strip(text)

\* lines 230-237: what on_new_chat appends to the log after "Preparando
\* envio", and what it did, for the answer resp of the network
Outcome(webhook, content, resp) ==
    IF webhook # <<>>
    THEN LET r == post_webhook(webhook, content, resp)
         IN  [posted |-> TRUE, url |-> webhook, resp |-> resp, ret |-> r,
              diag |-> IF r.success
                       THEN Diag("Mensaje enviado correctamente al webhook.", <<>>)
                       ELSE Diag("Error al enviar webhook", r.resp_text)]
    ELSE [posted |-> FALSE, url |-> <<>>, resp |-> NoResponse, ret |-> NoReturn,
          diag |-> Diag("Webhook vacio - no se envio el mensaje.", <<>>)]

\* a faulty variant of on_new_chat: a ChatEvent whose POST failed stays in
\* the queue and is tried again
on_new_chat_retrying ==
    /\ fg_pc = "loop"
    /\ events # <<>>
    /\ Head(events).sig = "new_chat"
    /\ LET e == Head(events)
           platform_label == PlatformLabel(e.platform_id)
           template == EffectiveTemplate(template_text)
           content == Render(template, platform_label, e.user, e.message)
           webhook == DispatchUrl(webhook_text)
       IN  \E resp \in IF webhook # <<>> THEN Responses ELSE {NoResponse} :
             LET o == Outcome(webhook, content, resp)
             IN  /\ app_log' = app_log \o
                       << Diag("Preparando envio", content), o.diag >>
                 /\ handled' = Append(handled,
                       [src |-> e.src, off |-> e.off, stamp |-> e.stamp,
                        platform_id |-> e.platform_id, user |-> e.user,
                        message |-> e.message, thread |-> SlotThread,
                        webhook_read |-> webhook_text,
                        content |-> content, posted |-> o.posted,
                        url |-> o.url, resp |-> o.resp, ret |-> o.ret])
                 /\ events' = IF o.posted /\ ~o.ret.success
                              THEN events ELSE Tail(events)
    /\ UNCHANGED <<tail_worker, start_btn, fg_pc, formVars, fsVars, workers,
                   nWorkers, nReads, call>>

\* lines 211-237, as the slot of the signal new_chat
on_new_chat ==
    /\ fg_pc = "loop"
    /\ events # <<>>
    /\ Head(events).sig = "new_chat"
    /\ LET e == Head(events)
           platform_label == PlatformLabel(e.platform_id)
           template == EffectiveTemplate(template_text)
           content == Render(template, platform_label, e.user, e.message)
           webhook == DispatchUrl(webhook_text)
       IN  \E resp \in IF webhook # <<>> THEN Responses ELSE {NoResponse} :
             LET o == Outcome(webhook, content, resp)
             IN  /\ app_log' = app_log \o
                       << Diag("Preparando envio", content), o.diag >>
                 /\ handled' = Append(handled,
                       [src |-> e.src, off |-> e.off, stamp |-> e.stamp,
                        platform_id |-> e.platform_id, user |-> e.user,
                        message |-> e.message, thread |-> SlotThread,
                        webhook_read |-> webhook_text,
                        content |-> content, posted |-> o.posted,
                        url |-> o.url, resp |-> o.resp, ret |-> o.ret])
    /\ events' = Tail(events)
    /\ UNCHANGED <<tail_worker, start_btn, fg_pc, formVars, fsVars, workers,
                   nWorkers, nReads, call>>

(***************************************************************************)
(* The user types in the form; the server writes the log.                  *)
(***************************************************************************)
EditFile(v) ==
    /\ nEdits < MaxEdits
    /\ fg_pc = "loop"
    /\ v # file_edit
    /\ file_edit' = v
    /\ nEdits' = nEdits + 1
    /\ UNCHANGED nClicks
    /\ UNCHANGED <<guiVars, webhook_edit, template_edit, fsVars, workers,
                   nWorkers, events, nReads, call>>

EditWebhook(v) ==
    /\ nEdits < MaxEdits
    /\ fg_pc = "loop"
    /\ v # webhook_edit
    /\ webhook_edit' = v
    /\ nEdits' = nEdits + 1
    /\ UNCHANGED nClicks
    /\ UNCHANGED <<guiVars, file_edit, template_edit, fsVars, workers,
                   nWorkers, events, nReads, call>>

EditTemplate(v) ==
    /\ nEdits < MaxEdits
    /\ fg_pc = "loop"
    /\ v # template_edit
    /\ template_edit' = v
    /\ nEdits' = nEdits + 1
    /\ UNCHANGED nClicks
    /\ UNCHANGED <<guiVars, file_edit, webhook_edit, fsVars, workers,
                   nWorkers, events, nReads, call>>

ServerWrites(w) ==
    /\ file_exists
    /\ nWrites < MaxWrites
    /\ file' = file \o w
    /\ nWrites' = nWrites + 1
    /\ UNCHANGED <<guiVars, formVars, file_exists, nErrors, workers, nWorkers, events,
                   nReads, call>>

\* the log file is removed; a thread that has it open keeps reading it
RemoveFile ==
    /\ file_exists
    /\ file_exists' = FALSE
    /\ UNCHANGED <<guiVars, formVars, file, nWrites, nErrors, workers, nWorkers, events,
                   nReads, call>>

Next ==
    \/ toggle_watch
    \/ wait_returns
    \/ append_log
    \/ on_new_chat
    \/ \E v \in PathValues : EditFile(v)
    \/ \E v \in WebhookValues : EditWebhook(v)
    \/ \E v \in TemplateValues : EditTemplate(v)
    \/ \E w \in Writes : ServerWrites(w)
    \/ RemoveFile
    \/ \E u \in Units : WorkerStep(u)

Spec == Init /\ [][Next]_vars

(***************************************************************************)
(* The same program while the server writes nothing and the form is left   *)
(* as configured: no line is ever read, so Emit and on_new_chat have       *)
(* nothing to do.  Stated with what the schedulers guarantee: a thread     *)
(* that can take a step of run() takes it, and the GUI thread runs the     *)
(* slot of a queued signal and comes back from wait(2000).  Nothing makes  *)
(* the user click, the file disappear, or a read fail.                     *)
(***************************************************************************)
RunStep(u) == RunEnter(u) \/ LoopRead(u)

\* what the GUI thread does without the user
GuiStep == append_log \/ wait_returns

LiveNext ==
    \/ toggle_watch
    \/ wait_returns
    \/ append_log
    \/ RemoveFile
    \/ \E u \in Units : RunEnter(u)
    \/ \E u \in Units : LoopRead(u)
    \/ \E u \in Units : ReadError(u)

Fairness ==
    /\ \A u \in Units : WF_vars(RunStep(u))
    /\ WF_vars(GuiStep)

LiveSpec == Init /\ [][LiveNext]_vars /\ Fairness

(***************************************************************************)
(* Lines 220-225 of on_new_chat on their own, for templates, labels, user  *)
(* names and messages that may hold the text of a token.                   *)
(***************************************************************************)
RenderLabels == {PsnLabel, TokUser}
RenderUsers == {<<"Z">>, TokMessage, <<"a", "{", "b">>}
RenderMessages == {<<"h", "i">>, TokUser, TokPlatform}

RenderInit ==
    /\ WindowInit
    /\ call \in {[pc |-> "rendering", template |-> t, label |-> l, user |-> u,
                  message |-> m, content |-> <<>>] :
                    t \in TemplateValues, l \in RenderLabels,
                    u \in RenderUsers, m \in RenderMessages}

RenderReturns ==
    /\ call.pc = "rendering"
    /\ call' = [call EXCEPT !.pc = "rendered",
                            !.content = Render(EffectiveTemplate(call.template),
                                               call.label, call.user, call.message)]
    /\ UNCHANGED <<tail_worker, start_btn, file_edit, webhook_edit,
                   template_edit, app_log, fg_pc, workers, nWorkers, events,
                   file_exists, file, nWrites, nErrors, nEdits, nClicks,
                   nReads, handled>>

RenderSpec == RenderInit /\ [][RenderReturns]_vars

(***************************************************************************)
(* The window is closed, while the server writes nothing.                  *)
(***************************************************************************)
\* lines 261-263 and 87: closeEvent up to the wait of TailWorker.stop, or
\* all of it when there is no worker
closeEvent ==
    /\ fg_pc = "loop"
    /\ IF tail_worker # 0
       THEN /\ workers' = [workers EXCEPT ![tail_worker].running = FALSE,
                                          ![tail_worker].stop_asked = TRUE]
            /\ fg_pc' = "close_wait"
       ELSE /\ fg_pc' = "closed"
            /\ UNCHANGED workers
    /\ UNCHANGED <<tail_worker, start_btn, app_log, handled, formVars, fsVars,
                   nWorkers, events, nReads, call>>

\* lines 88 and 264: self.wait(2000) returns, because the thread has
\* finished or because 2000 ms have passed, and the event is accepted
close_wait_returns ==
    /\ fg_pc = "close_wait"
    /\ fg_pc' = "closed"
    /\ UNCHANGED <<tail_worker, start_btn, app_log, handled, formVars, fsVars,
                   workers, nWorkers, events, nReads, call>>

CloseNext ==
    \/ LiveNext
    \/ closeEvent
    \/ close_wait_returns

CloseSpec == Init /\ [][CloseNext]_vars

(***************************************************************************)
(* One session from its start on: the user types a webhook and clicks      *)
(* start once, and the server appends pieces of text to the log, each the  *)
(* bytes of one flush of its buffer.                                       *)
(***************************************************************************)
ServerAppends(w) ==
    /\ file_exists
    /\ nWrites < MaxPieces
    /\ file' = file \o w
    /\ nWrites' = nWrites + 1
    /\ UNCHANGED <<guiVars, formVars, file_exists, nErrors, workers, nWorkers, events,
                   nReads, call>>

FirstClick == nClicks = 0 /\ toggle_watch

PipeNext ==
    \/ FirstClick
    \/ append_log
    \/ on_new_chat
    \/ \E v \in WebhookValues : EditWebhook(v)
    \/ \E w \in Pieces : ServerAppends(w)
    \/ \E u \in Units : WorkerStep(u)

PipeSpec == Init /\ [][PipeNext]_vars

(***************************************************************************)
(* One call of post_webhook, for every answer of the network.              *)
(***************************************************************************)
Statuses == {100, 199, 200, 201, 202, 203, 204, 205, 206, 301, 400, 404, 429, 500}
Bodies == {<<>>, <<"n", "o">>}
Errors == {<<"t", "i", "m", "e", "d">>, <<"r", "e", "f", "u", "s", "e", "d">>}
AllResponses ==
    {HttpResponse(st, b) : st \in Statuses, b \in Bodies}
        \cup {HttpException(err) : err \in Errors}
PostUrls == {Strip(UrlPadded), <<"w">>}
PostContents == {<<"h", "i">>, <<>>}

PostInit ==
    /\ WindowInit
    /\ call \in {[pc |-> "calling", webhook_url |-> url, content |-> c,
                  resp |-> r, ret |-> NoReturn] :
                    url \in PostUrls, c \in PostContents, r \in AllResponses}

PostReturns ==
    /\ call.pc = "calling"
    /\ call' = [call EXCEPT !.pc = "returned",
                            !.ret = post_webhook(call.webhook_url, call.content,
                                                 call.resp)]
    /\ UNCHANGED <<tail_worker, start_btn, file_edit, webhook_edit,
                   template_edit, app_log, fg_pc, workers, nWorkers, events,
                   file_exists, file, nWrites, nErrors, nEdits, nClicks,
                   nReads, handled>>

PostSpec == PostInit /\ [][PostReturns]_vars

(***************************************************************************)
(* The claims.                                                             *)
(***************************************************************************)
\* the thread of worker u is inside the loop of lines 61-79
InLoop(u) == workers[u].pc \in {"while", "emit"}

\* the path in the file field is one start_watching must refuse
InvalidPath == file_edit = <<>> \/ file_edit # LogPath \/ ~file_exists

\* the window shows no session: no worker is referred to, the button starts
Idle == tail_worker = 0 /\ start_btn = StartText

Last(q) == q[Len(q)]

\* C1: in every reachable state at most one TailWorker thread is inside its
\* poll loop.
C1_AtMostOnePollLoop == Cardinality({u \in Units : InLoop(u)}) <= 1

\* C2: once stop() has been called on a started worker, its thread
\* eventually leaves the loop and finishes, whatever the interleaving of
\* stop() and run().
C2_StopTerminates ==
    \A u \in Units : workers[u].stop_asked ~> (workers[u].pc = "finished")

\* C3: a click that runs start_watching while the path is empty or names no
\* file leaves the session as it was (Idle stays Idle, no worker is
\* constructed or started) and appends exactly one line, the refusal, to
\* the log.
C3_StartRejected ==
    [][ (toggle_watch
            /\ ~(tail_worker # 0 /\ isRunning(tail_worker))
            /\ InvalidPath)
        => /\ tail_worker' = tail_worker
           /\ start_btn' = start_btn
           /\ (Idle => Idle')
           /\ nWorkers' = nWorkers
           /\ workers' = workers
           /\ events' = events
           /\ app_log' = Append(app_log,
                  Diag("Ruta de archivo invalida o no existe.", <<>>)) ]_vars

\* a start has been refused because the file was not there
C3_Witness ==
    /\ app_log # <<>>
    /\ Last(app_log).msg = "Ruta de archivo invalida o no existe."
    /\ file_edit = LogPath
    /\ ~file_exists
    /\ Idle
    /\ nWorkers = 0

\* C4: when the worker the session refers to has finished on its own (file
\* not found, or a read error), the session comes back to Idle without a
\* click.
C4_SettlesIdle ==
    \A u \in Units :
        (tail_worker = u /\ workers[u].pc = "finished" /\ ~workers[u].stop_asked)
            ~> Idle

\* the values the form had when worker u was constructed
StartUrl(u) == Strip(workers[u].webhook0)
StartTemplate(u) == EffectiveTemplate(workers[u].template0)

\* s is empty or has white space only
IsBlank(s) == \A i \in DOMAIN s : s[i] \in Whitespace

\* a step that runs on_new_chat once
Handles == Len(handled') = Len(handled) + 1

\* C5 as stated: every ChatEvent of a session is rendered with the template,
\* and sent to the webhook, that the form held when the session was started.
C5_UsesValuesAtStart ==
    \A i \in DOMAIN handled :
        /\ handled[i].url = StartUrl(handled[i].src)
        /\ handled[i].content =
               Render(StartTemplate(handled[i].src),
                      PlatformLabel(handled[i].platform_id),
                      handled[i].user, handled[i].message)

\* C5 as amended: every ChatEvent is rendered with the template, and sent to
\* the webhook, that the form holds at the moment the event is handled.
C5_UsesValuesWhenHandled ==
    [][ Handles =>
          /\ Last(handled').url = Strip(webhook_edit)
          /\ Last(handled').posted = (Strip(webhook_edit) # <<>>)
          /\ Last(handled').content =
                 Render(EffectiveTemplate(template_edit),
                        PlatformLabel(Head(events).platform_id),
                        Head(events).user, Head(events).message) ]_vars

\* a chat line has been sent to a webhook typed in after its session started
C5_Witness ==
    \E i \in DOMAIN handled :
        /\ handled[i].posted
        /\ handled[i].url # StartUrl(handled[i].src)
        /\ handled[i].url = Strip(UrlPadded)

\* C6: no HTTP POST for a ChatEvent is made on the GUI thread.
C6_PostOffGuiThread ==
    \A i \in DOMAIN handled : handled[i].posted => handled[i].thread # "gui"

\* C7: a ChatEvent handled while the webhook field is blank is skipped: no
\* request is made, and the log gets the line of the content and one line
\* that says the message was not sent.
C7_BlankWebhookSkips ==
    [][ (Handles /\ IsBlank(webhook_edit)) =>
          /\ ~Last(handled').posted
          /\ Last(handled').resp = NoResponse
          /\ Len(app_log') = Len(app_log) + 2
          /\ app_log'[Len(app_log) + 1].msg = "Preparando envio"
          /\ Last(app_log') = Diag("Webhook vacio - no se envio el mensaje.", <<>>) ]_vars

\* a ChatEvent has been skipped while the field held white space only
C7_Witness ==
    \E i \in DOMAIN handled :
        /\ handled[i].webhook_read = UrlBlank
        /\ ~handled[i].posted
        /\ Last(app_log).msg = "Webhook vacio - no se envio el mensaje."

\* C8: post_webhook returns success exactly for a response of status 200 or
\* 204; for another status its text has the status and the body, for an
\* exception the text of the exception; it never raises.
C8_PostClassifies ==
    call.pc = "returned" =>
        /\ ~call.ret.raised
        /\ call.ret.success
               <=> (call.resp.kind = "response" /\ call.resp.status \in {200, 204})
        /\ (call.resp.kind = "response" /\ ~call.ret.success)
               => /\ Len(call.ret.resp_text) = 3
                  /\ call.ret.resp_text[2] = call.resp.status
                  /\ call.ret.resp_text[3] = call.resp.text
        /\ call.resp.kind = "exception"
               => call.ret.resp_text = call.resp.text

\* a call answered 201 with a body has returned, as failed
C8_Witness ==
    /\ call.pc = "returned"
    /\ call.resp.kind = "response"
    /\ call.resp.status = 201
    /\ call.resp.text # <<>>
    /\ ~call.ret.success

\* C9: ChatEvents are handled in the order their lines were read.
C9_HandledInReadOrder ==
    \A i, j \in DOMAIN handled :
        i < j => handled[i].stamp < handled[j].stamp

\* C10: every line a worker emits was read at or after the end the file had
\* when the worker positioned itself.
C10_OnlyAppendedLines ==
    /\ \A u \in Units :
          workers[u].pc = "emit" => workers[u].off >= workers[u].eof0
    /\ \A i \in DOMAIN events :
          events[i].stamp > 0 => events[i].off >= workers[events[i].src].eof0
    /\ \A i \in DOMAIN handled :
          handled[i].off >= workers[handled[i].src].eof0

\* a worker that found a chat line in the file when it opened it has had a
\* line handled, and that line is one written after it
C10_Witness ==
    \E i \in DOMAIN handled :
        /\ workers[handled[i].src].eof0 >= Len(OldLog)
        /\ handled[i].off >= workers[handled[i].src].eof0
        /\ handled[i].off + Len(ChatWrite) <= Len(file)

\* the three lines on_new_chat may end with
DeliveredMsg == "Mensaje enviado correctamente al webhook."
FailedMsg == "Error al enviar webhook"
SkippedMsg == "Webhook vacio - no se envio el mensaje."

\* the outcome line that goes with what was done for a ChatEvent
OutcomeMsg(r) ==
    IF ~r.posted THEN SkippedMsg
    ELSE IF r.ret.success THEN DeliveredMsg ELSE FailedMsg

\* C11: handling a ChatEvent makes at most one POST and appends, after the
\* line of the content, exactly one outcome line, the one of what happened;
\* the event leaves the queue whatever the outcome (no retry), and neither
\* the worker nor the GUI thread is stopped, so the events behind it are
\* handled in turn.
C11_OneAttemptOneOutcome ==
    [][ Handles =>
          /\ Len(app_log') = Len(app_log) + 2
          /\ app_log'[Len(app_log) + 1].msg = "Preparando envio"
          /\ Last(app_log').msg = OutcomeMsg(Last(handled'))
          /\ Last(handled').posted <=> Last(handled').resp # NoResponse
          /\ events' = Tail(events)
          /\ workers' = workers
          /\ fg_pc' = "loop" ]_vars

\* the POST of a chat line has failed, and the chat line the same worker read
\* after it has been delivered
C11_Witness ==
    /\ Len(handled) = 2
    /\ handled[1].src = handled[2].src
    /\ handled[1].off < handled[2].off
    /\ handled[1].posted /\ ~handled[1].ret.success
    /\ handled[2].posted /\ handled[2].ret.success
    /\ Last(app_log).msg = DeliveredMsg

\* the signals a step adds to the queue
Added ==
    IF Len(events') > Len(events)
    THEN SubSeq(events', Len(events) + 1, Len(events'))
    ELSE << >>

\* the two error lines of run()
ErrorMsgs == {"El archivo no fue encontrado", "Error en TailWorker"}

\* among the signals q, those of worker u that are an error line, and those
\* that carry a line of the file or a chat
ErrorsOf(q, u) ==
    {i \in DOMAIN q : q[i].src = u /\ q[i].sig = "log" /\ q[i].diag.msg \in ErrorMsgs}
LinesOf(q, u) ==
    {i \in DOMAIN q : q[i].src = u
                        /\ (q[i].sig = "new_chat"
                              \/ q[i].diag.msg \in {"Linea detectada", "Chat parseado"})}

\* C12: a worker that cannot open its file, or whose read fails, emits
\* exactly one error line with that step, emits no line and no ChatEvent
\* with it or after it, and has finished: it never runs again.
C12_FatalErrorOnceThenSilent ==
    [][ \A u \in Units :
          /\ ErrorsOf(Added, u) # {}
                => /\ Cardinality(ErrorsOf(Added, u)) = 1
                   /\ LinesOf(Added, u) = {}
                   /\ workers'[u].pc = "finished"
          /\ (workers[u].pc # "finished" /\ workers'[u].pc = "finished"
                /\ workers'[u].running)
                => Cardinality(ErrorsOf(Added, u)) = 1
          /\ workers[u].pc = "finished"
                => /\ workers'[u].pc = "finished"
                   /\ \A i \in DOMAIN Added : Added[i].src # u ]_vars

\* a worker has ended on a file that was gone when it opened it, and its
\* error line is in the log
C12_Witness ==
    /\ \E u \in Units : workers[u].pc = "finished" /\ workers[u].running
                          /\ workers[u].eof0 = 0
    /\ \E i \in DOMAIN app_log : app_log[i].msg = "El archivo no fue encontrado"
    /\ events = <<>>

\* C13: when closeEvent has accepted the event, no thread this window
\* started is still running.
C13_NoUnitAfterClose ==
    fg_pc = "closed" => \A u \in Units : ~isRunning(u)

\* a step in which worker u emits what it has to emit for the line it read
Emits(u) == workers[u].pc = "emit" /\ workers'[u].pc = "while"

\* C14: for a line that CHAT_LINE_RE does not match the worker emits the
\* line-detected signal and nothing else; for a line it matches, the
\* line-detected signal, then one parsed-fields signal, then one ChatEvent.
C14_ChatEventIffMatch ==
    [][ \A u \in Units : Emits(u) =>
          /\ Len(Added) >= 1
          /\ Added[1].sig = "log"
          /\ Added[1].diag = Diag("Linea detectada", workers[u].line)
          /\ IF ChatSearch(workers[u].line).ok
             THEN /\ Len(Added) = 3
                  /\ Added[2].sig = "log"
                  /\ Added[2].diag.msg = "Chat parseado"
                  /\ Added[3].sig = "new_chat"
             ELSE Len(Added) = 1 ]_vars

\* a worker has emitted a line that is no chat line: the queue ends with its
\* line-detected signal, and no ChatEvent was made
C14_Witness ==
    /\ events # <<>>
    /\ Last(events).diag = Diag("Linea detectada", Strip(JunkWrite))
    /\ \A i \in DOMAIN events : events[i].sig # "new_chat"
    /\ handled = <<>>
    /\ \E u \in Units : workers[u].pc = "while" /\ workers[u].pos = Len(file)
                          /\ workers[u].eof0 < Len(file)

\* C15: the chat line without a qualifier, Chat (from 'PSN_1'): 'Z': hi, is
\* matched, with the groups PSN_1, Z and hi.
C15_QualifierOptional ==
    \A u \in Units :
        (workers[u].pc = "emit" /\ workers[u].line = Strip(PlainWrite))
            => ChatSearch(workers[u].line) =
                   [ok |-> TRUE,
                    platform_id |-> <<"P", "S", "N", "_", "1">>,
                    user |-> <<"Z">>,
                    group3 |-> <<"h", "i">>]

\* one substitution of the three tokens, left to right over the template t
\* from index i on, in which the text put in is never looked at
RECURSIVE SubstituteFrom(_, _, _, _, _)
SubstituteFrom(t, label, user, message, i) ==
    IF i > Len(t) THEN <<>>
    ELSE IF OccursAt(t, TokPlatform, i)
         THEN label \o SubstituteFrom(t, label, user, message, i + Len(TokPlatform))
    ELSE IF OccursAt(t, TokUser, i)
         THEN user \o SubstituteFrom(t, label, user, message, i + Len(TokUser))
    ELSE IF OccursAt(t, TokMessage, i)
         THEN message \o SubstituteFrom(t, label, user, message, i + Len(TokMessage))
    ELSE <<t[i]>> \o SubstituteFrom(t, label, user, message, i + 1)

\* C16: the rendered content is the template with the tokens that occur in
\* the template itself replaced, all at once; token text that came in with a
\* value stays as it is.
C16_SingleSubstitution ==
    call.pc = "rendered" =>
        call.content = SubstituteFrom(EffectiveTemplate(call.template),
                                      call.label, call.user, call.message, 1)

\* C17: a stop that has been issued (the GUI thread is in the wait of
\* TailWorker.stop) completes, and the window is then Idle, whether the
\* worker's thread has finished or not.
C17_StopCompletes == (fg_pc = "wait") ~> (fg_pc = "loop" /\ Idle)

\* a stop has completed and left the window Idle while the thread it
\* stopped is still running
C17_Witness ==
    /\ fg_pc = "loop"
    /\ Idle
    /\ \E u \in Units : workers[u].stop_asked /\ isRunning(u)
    /\ Last(app_log).msg = "Vigilancia detenida."

\* stop_watching has been run for worker u, and has returned
Stopped(u) == workers[u].stop_asked /\ tail_worker # u

\* a step in which the GUI thread runs the slot of the oldest queued signal
RunsSlot == events # <<>> /\ events' = Tail(events)

\* a signal that carries a line of the file or a chat
CarriesLine(e) ==
    e.sig = "new_chat" \/ e.diag.msg \in {"Linea detectada", "Chat parseado"}

\* C18: while the window is Idle, no line-detected or parsed-fields signal
\* and no ChatEvent of a worker that stop_watching has stopped is handled.
C18_SilentAfterStop ==
    [][ (RunsSlot /\ Idle /\ CarriesLine(Head(events)))
            => ~Stopped(Head(events).src) ]_vars

EndOfLineAt(off) == LineEnd(file, off + 1)

\* C20: the line a worker is about to emit is a whole line of the file: the
\* text from where it was read up to a newline that is there.
C20_WholeLines ==
    \A u \in Units :
        workers[u].pc = "emit"
            => /\ file[EndOfLineAt(workers[u].off)] = "\n"
               /\ workers[u].line =
                      Strip(SubSeq(file, workers[u].off + 1,
                                   EndOfLineAt(workers[u].off)))

====
